---- MODULE Spec2Model ----
(***************************************************************************)
(* The agent bridge (PythonBridgeImpl), the chat/approval controller       *)
(* (ChatController) and the chat view model (ChatViewModel) of src/chat.   *)
(*                                                                         *)
(* Strings are sequences of symbols.  A text the code searches (approval   *)
(* ids, message contents) is spelled character by character; a literal the *)
(* code only copies (an error text) is kept as one symbol.                 *)
(*                                                                         *)
(* The agent's standard output is a sequence of wire units: the newline,   *)
(* the JSON punctuation and one unit per "key": value member.  A read may  *)
(* end after any unit, so a chunk boundary may fall inside a line.         *)
(***************************************************************************)
EXTENDS Integers, Sequences, FiniteSets, TLC

VARIABLES
    m_pythonBridge,        \* ChatController::m_pythonBridge is non-null
    m_pythonProcess,       \* PythonBridgeImpl::m_pythonProcess is non-null
    procState,             \* QProcess::state() of the handle
    m_stdoutBuffer,        \* PythonBridgeImpl::m_stdoutBuffer
    pipe,                  \* written by the agent to stdout, not yet read
    stdinLog,              \* every object written to the process's stdin, in order
    m_messages,            \* ChatController::m_messages
    m_pendingApprovalId,   \* ChatController::m_pendingApprovalId
    vm_messages,           \* ChatViewModel::m_messages
    vm_isProcessing,       \* ChatViewModel::m_isProcessing
    vm_pendingApprovalId,  \* ChatViewModel::m_pendingApprovalId
    vm_approvalStepTotal,  \* ChatViewModel::m_approvalStepTotal
    errorEvents,           \* every text sent on PythonBridge::errorOccurred
    executed,              \* action codes handed to the dispatcher
    parsed,                \* every line the bridge handed to parseResponse, in order
    received,              \* every unit read from the process since its start
    hasExecutor,           \* ioc resolves IAgentActionExecutor
    hasStateReader,        \* ioc resolves IAgentStateReader
    nSteps,                \* host calls made and lines written (bounded)
    last                   \* the operation that made the last step

vars == <<m_pythonBridge, m_pythonProcess, procState, m_stdoutBuffer, pipe,
          stdinLog, m_messages, m_pendingApprovalId, vm_messages,
          vm_isProcessing, vm_pendingApprovalId, vm_approvalStepTotal,
          errorEvents, executed, parsed, received, hasExecutor,
          hasStateReader, nSteps, last>>

\* Bounds of the model: the host calls and agent lines of one behaviour.
MaxSteps == 3
MaxApprovalSteps == 4
MaxHostSteps == 4
MaxProtocolSteps == 3
MaxViewSteps == 4
MaxLifecycleSteps == 6

----------------------------------------------------------------------------
\* Strings

npos == -1

\* std::string::find(needle): the first position (from 0) where needle
\* occurs in s, npos when it does not occur.
Find(s, needle) ==
    LET hits == { i \in 0..(Len(s) - Len(needle)) :
                    SubSeq(s, i + 1, i + Len(needle)) = needle }
    IN  IF hits = {} THEN npos
        ELSE CHOOSE i \in hits : \A j \in hits : i <= j

\* std::string::substr(0, n)
Substr0(s, n) == SubSeq(s, 1, n)

StepMarker    == <<"_", "s", "t", "e", "p", "_">>
CanUndoMarker == <<"|", "c", "a", "n", "U", "n", "d", "o", ":", "t", "r", "u", "e">>

Abc123      == <<"a", "b", "c", "1", "2", "3">>
Abc123Step2 == Abc123 \o StepMarker \o <<"2">>
Abc123Xyz   == Abc123 \o <<"x", "y", "z">>
Xyz         == <<"x", "y", "z">>
Op1         == <<"o", "p", "1">>
EmptyStr    == <<>>

----------------------------------------------------------------------------
\* Wire units and JSON values

NL       == [u |-> "\n"]
LBrace   == [u |-> "{"]
RBrace   == [u |-> "}"]
LBracket == [u |-> "["]
RBracket == [u |-> "]"]
Member(k, v) == [u |-> "member", k |-> k, v |-> v]

JStr(s)  == [ty |-> "string", s |-> s]
JBool(b) == [ty |-> "bool", b |-> b]
JInt(n)  == [ty |-> "int", n |-> n]
JObj(ms) == [ty |-> "object", o |-> ms]
JUndefined == [ty |-> "undefined"]

\* QJsonObject::operator[]: the value of the last member with that key,
\* undefined when there is none.  An object is its sequence of members.
JGet(obj, key) ==
    LET idx == { i \in 1..Len(obj) : obj[i].k = key }
    IN  IF idx = {} THEN JUndefined
        ELSE obj[CHOOSE i \in idx : \A j \in idx : j <= i].v

\* QJsonValue::toString / toBool / toInt / toObject with their defaults.
JToString(v, dflt) == IF v.ty = "string" THEN v.s ELSE dflt
JToBool(v, dflt) == IF v.ty = "bool" THEN v.b ELSE dflt
JToInt(v, dflt) == IF v.ty = "int" THEN v.n ELSE dflt
JToObject(v) == IF v.ty = "object" THEN v.o ELSE <<>>

\* QJsonDocument::fromJson on one line: an object is "{" members "}", an
\* array is "[" "]"; every other line is a parse error.
FromJson(data) ==
    IF /\ Len(data) >= 2
       /\ data[1] = LBrace
       /\ data[Len(data)] = RBrace
       /\ \A i \in 2..(Len(data) - 1) : data[i].u = "member"
    THEN [error |-> FALSE, isObject |-> TRUE,
          object |-> SubSeq(data, 2, Len(data) - 1)]
    ELSE IF data = <<LBracket, RBracket>>
    THEN [error |-> FALSE, isObject |-> FALSE, object |-> <<>>]
    ELSE [error |-> TRUE, isObject |-> FALSE, object |-> <<>>]

----------------------------------------------------------------------------
\* The state the handlers work on, as one record

Cur ==
    [proc |-> m_pythonProcess, state |-> procState,
     buf |-> m_stdoutBuffer, stdin |-> stdinLog, messages |-> m_messages,
     pending |-> m_pendingApprovalId, vmMessages |-> vm_messages,
     vmProcessing |-> vm_isProcessing, vmPending |-> vm_pendingApprovalId,
     vmStepTotal |-> vm_approvalStepTotal, errorEvents |-> errorEvents,
     executed |-> executed, parsed |-> parsed]

Commit(st) ==
    /\ m_pythonProcess' = st.proc
    /\ procState' = st.state
    /\ m_stdoutBuffer' = st.buf
    /\ stdinLog' = st.stdin
    /\ m_messages' = st.messages
    /\ m_pendingApprovalId' = st.pending
    /\ vm_messages' = st.vmMessages
    /\ vm_isProcessing' = st.vmProcessing
    /\ vm_pendingApprovalId' = st.vmPending
    /\ vm_approvalStepTotal' = st.vmStepTotal
    /\ errorEvents' = st.errorEvents
    /\ executed' = st.executed
    /\ parsed' = st.parsed

\* m_pythonProcess && m_pythonProcess->state() == QProcess::Running
Running(st) == st.proc /\ st.state = "Running"

RetOk == <<"Ok">>
IsOk(ret) == ret = RetOk

----------------------------------------------------------------------------
\* ChatViewModel: the two subscriptions

ChatMessage(role, content, canUndo) ==
    [role |-> role, content |-> content, isPending |-> FALSE,
     canUndo |-> canUndo]

VMonMessageReceived(st, message) ==
    [st EXCEPT !.vmMessages = Append(@, message),
               !.vmProcessing =
                   IF message.role = "Assistant" /\ ~message.isPending
                   THEN FALSE ELSE @]

VMonApprovalRequested(st, request) ==
    [st EXCEPT !.vmPending = request.id,
               !.vmStepTotal = request.totalSteps]

----------------------------------------------------------------------------
\* ChatController: the three subscriptions to the bridge's channels

\* Mutant: an assistant message ends the pending approval.
onPythonMessage_ClearsPending(st, message) ==
    LET flagPos == Find(message, CanUndoMarker)
        canUndo == flagPos # npos
        content == IF canUndo THEN Substr0(message, flagPos) ELSE message
        assistantMsg == ChatMessage("Assistant", content, canUndo)
    IN  VMonMessageReceived(
            [st EXCEPT !.messages = Append(@, assistantMsg),
                       !.pending = <<>>], assistantMsg)

onPythonMessage(st, message) ==
    LET flagPos == Find(message, CanUndoMarker)
        canUndo == flagPos # npos
        content == IF canUndo THEN Substr0(message, flagPos) ELSE message
        assistantMsg == ChatMessage("Assistant", content, canUndo)
    IN  VMonMessageReceived(
            [st EXCEPT !.messages = Append(@, assistantMsg)], assistantMsg)

\* Mutant: a request that arrives while another is pending is ignored.
onPythonApprovalRequest_KeepsFirst(st, request) ==
    IF st.pending # <<>> THEN st
    ELSE VMonApprovalRequested([st EXCEPT !.pending = request.id], request)

onPythonApprovalRequest(st, request) ==
    VMonApprovalRequested([st EXCEPT !.pending = request.id], request)

\* Mutant: the error entry replaces the log.
onPythonError_ReplacesLog(st, error) ==
    LET errorMsg == ChatMessage("System", <<"Error: ">> \o error, FALSE)
    IN  VMonMessageReceived([st EXCEPT !.messages = <<errorMsg>>], errorMsg)

onPythonError(st, error) ==
    LET errorMsg == ChatMessage("System", <<"Error: ">> \o error, FALSE)
    IN  VMonMessageReceived(
            [st EXCEPT !.messages = Append(@, errorMsg)], errorMsg)

\* Mutant: the error event reaches no subscriber.
SendErrorOccurred_NotDelivered(st, text) ==
    [st EXCEPT !.errorEvents = Append(@, text)]

\* m_errorOccurred.send(text): the channel delivers to the controller at once
SendErrorOccurred(st, text) ==
    onPythonError([st EXCEPT !.errorEvents = Append(@, text)], text)

----------------------------------------------------------------------------
\* AgentActionExecutor

Split == <<"s", "p", "l", "i", "t">>
Nope  == <<"n", "o", "p", "e">>

\* dispatcher()->actionList(): the registered action codes
RegisteredActions == {Split}

\* The code without its "?params" part (for a full URI the ActionQuery's
\* uri(), which drops the parameters as well).
BaseCode(code) ==
    LET paramPos == Find(code, <<"?">>)
    IN  IF paramPos # npos THEN Substr0(code, paramPos) ELSE code

\* Both branches of isActionEnabled return true.
isActionEnabled(code) == TRUE

\* The Ret of executeAction and whether the action was dispatched.
executeAction(code) ==
    LET baseCode == BaseCode(code)
    IN  IF ~isActionEnabled(baseCode)
        THEN [ret |-> <<"Action not enabled: ">> \o baseCode,
              dispatched |-> FALSE]
        ELSE IF baseCode \notin RegisteredActions
        THEN [ret |-> <<"Action not registered: ">> \o baseCode,
              dispatched |-> FALSE]
        ELSE [ret |-> RetOk, dispatched |-> TRUE]

----------------------------------------------------------------------------
\* PythonBridgeImpl: the correlation router

\* QProcess::write on a running process appends to its write buffer and
\* accepts every byte, so the short-write branch is not taken.
sendToolResult(st, callId, result) ==
    IF ~Running(st) THEN st
    ELSE [st EXCEPT !.stdin =
              Append(@, [type |-> "tool_result", result |-> result])]

\* Mutant: the branch without an executor does not return.
handleToolCall_NoReturn(st, request) ==
    LET callId == JToString(JGet(request, "call_id"), EmptyStr)
        actionCode == JToString(JGet(request, "action_code"), EmptyStr)
        st0 == IF hasExecutor THEN st
               ELSE sendToolResult(st, callId,
                        [call_id |-> callId, success |-> FALSE,
                         error |-> <<"Action executor not available">>])
    IN  sendToolResult(st0, callId,
            [call_id |-> callId, action_code |-> actionCode,
             success |-> IsOk(executeAction(actionCode).ret)])

\* Mutant: the result says success whatever the executor returned.
handleToolCall_AlwaysSucceeds(st, request) ==
    LET callId == JToString(JGet(request, "call_id"), EmptyStr)
        actionCode == JToString(JGet(request, "action_code"), EmptyStr)
        run == executeAction(actionCode)
        st1 == IF run.dispatched
               THEN [st EXCEPT !.executed = Append(@, actionCode)] ELSE st
    IN  IF ~hasExecutor
        THEN sendToolResult(st, callId,
                 [call_id |-> callId, success |-> FALSE,
                  error |-> <<"Action executor not available">>])
        ELSE sendToolResult(st1, callId,
                 [call_id |-> callId, action_code |-> actionCode,
                  success |-> TRUE,
                  message |-> <<"Action executed successfully">>])

\* Mutant: the action is run before the executor is looked for.
handleToolCall_ExecutesFirst(st, request) ==
    LET callId == JToString(JGet(request, "call_id"), EmptyStr)
        actionCode == JToString(JGet(request, "action_code"), EmptyStr)
        run == executeAction(actionCode)
        st1 == IF run.dispatched
               THEN [st EXCEPT !.executed = Append(@, actionCode)] ELSE st
    IN  IF ~hasExecutor
        THEN sendToolResult(st1, callId,
                 [call_id |-> callId, success |-> FALSE,
                  error |-> <<"Action executor not available">>])
        ELSE IF IsOk(run.ret)
        THEN sendToolResult(st1, callId,
                 [call_id |-> callId, action_code |-> actionCode,
                  success |-> TRUE,
                  message |-> <<"Action executed successfully">>])
        ELSE sendToolResult(st1, callId,
                 [call_id |-> callId, action_code |-> actionCode,
                  success |-> FALSE, error |-> run.ret])

handleToolCall(st, request) ==
    LET callId == JToString(JGet(request, "call_id"), EmptyStr)
        actionCode == JToString(JGet(request, "action_code"), EmptyStr)
        run == executeAction(actionCode)
        st1 == IF run.dispatched
               THEN [st EXCEPT !.executed = Append(@, actionCode)] ELSE st
    IN  IF ~hasExecutor
        THEN sendToolResult(st, callId,
                 [call_id |-> callId, success |-> FALSE,
                  error |-> <<"Action executor not available">>])
        ELSE IF IsOk(run.ret)
        THEN sendToolResult(st1, callId,
                 [call_id |-> callId, action_code |-> actionCode,
                  success |-> TRUE,
                  message |-> <<"Action executed successfully">>])
        ELSE sendToolResult(st1, callId,
                 [call_id |-> callId, action_code |-> actionCode,
                  success |-> FALSE, error |-> run.ret])

\* The query types answered from the state reader alone.
ReaderQueries ==
    { <<"get_selection_start_time">>, <<"get_selection_end_time">>,
      <<"has_time_selection">>, <<"get_selected_tracks">>,
      <<"get_selected_clips">>, <<"get_total_project_time">>,
      <<"get_track_list">> }

\* The query types handleStateQuery has a branch for
RecognizedQueries ==
    ReaderQueries \cup
        { <<"get_cursor_position">>, <<"get_clips_on_track">>,
          <<"get_all_labels">>, <<"action_enabled">>,
          <<"get_project_audio_path">> }

\* QString::toLongLong(&ok) on the strings the model sends.
IsNumber(s) == s # <<>> /\ \A i \in 1..Len(s) : s[i] \in {"0", "1", "2", "3"}

\* success and error of the result, by query type.  env.context: the global
\* context (playback state, current project) is there; env.exported: the
\* audio export produced a usable file; env.throws: the provider throws.
QueryOutcome(queryType, params, env) ==
    LET ok == [success |-> TRUE, error |-> <<>>]
        fail(text) == [success |-> FALSE, error |-> text]
        trackIdStr == JToString(JGet(params, "track_id"), EmptyStr)
        actionCode == JToString(JGet(params, "action_code"), EmptyStr)
    IN  IF queryType \in ReaderQueries
        THEN IF env.throws THEN fail(<<"Exception: ">>) ELSE ok
        ELSE IF queryType = <<"get_cursor_position">>
        THEN IF env.context THEN ok
             ELSE fail(<<"Playback state not available">>)
        ELSE IF queryType = <<"get_clips_on_track">>
        THEN IF trackIdStr = <<>> THEN fail(<<"track_id parameter required">>)
             ELSE IF ~IsNumber(trackIdStr)
             THEN fail(<<"Invalid track_id format">>)
             ELSE IF env.throws THEN fail(<<"Exception: ">>) ELSE ok
        ELSE IF queryType = <<"get_all_labels">> THEN ok
        ELSE IF queryType = <<"action_enabled">>
        THEN IF actionCode = <<>>
             THEN fail(<<"action_code parameter required">>) ELSE ok
        ELSE IF queryType = <<"get_project_audio_path">>
        THEN IF ~env.context THEN fail(<<"No project available">>)
             ELSE IF env.exported THEN ok
             ELSE fail(<<"Failed to export audio from WaveTracks">>)
        ELSE fail(<<"Unknown query type: ">> \o queryType)

\* Mutant: a query of an unknown type gets no answer.
handleStateQuery_DropsUnknown(st, request, env) ==
    LET callId == JToString(JGet(request, "call_id"), EmptyStr)
        queryType == JToString(JGet(request, "query_type"), EmptyStr)
        params == JToObject(JGet(request, "parameters"))
        out == QueryOutcome(queryType, params, env)
    IN  IF ~hasStateReader
        THEN sendToolResult(st, callId,
                 [call_id |-> callId, success |-> FALSE,
                  error |-> <<"State reader not available">>])
        ELSE IF queryType \notin RecognizedQueries THEN st
        ELSE IF out.success
        THEN sendToolResult(st, callId,
                 [call_id |-> callId, query_type |-> queryType,
                  success |-> TRUE, value |-> <<"value">>])
        ELSE sendToolResult(st, callId,
                 [call_id |-> callId, query_type |-> queryType,
                  success |-> FALSE, error |-> out.error])

handleStateQuery(st, request, env) ==
    LET callId == JToString(JGet(request, "call_id"), EmptyStr)
        queryType == JToString(JGet(request, "query_type"), EmptyStr)
        params == JToObject(JGet(request, "parameters"))
        out == QueryOutcome(queryType, params, env)
    IN  IF ~hasStateReader
        THEN sendToolResult(st, callId,
                 [call_id |-> callId, success |-> FALSE,
                  error |-> <<"State reader not available">>])
        ELSE IF out.success
        THEN sendToolResult(st, callId,
                 [call_id |-> callId, query_type |-> queryType,
                  success |-> TRUE, value |-> <<"value">>])
        ELSE sendToolResult(st, callId,
                 [call_id |-> callId, query_type |-> queryType,
                  success |-> FALSE, error |-> out.error])

----------------------------------------------------------------------------
\* PythonBridgeImpl: the codec and the framer

ApprovalRequest(id, currentStep, totalSteps) ==
    [id |-> id, currentStep |-> currentStep, totalSteps |-> totalSteps]

\* Mutant: a line that fails to parse empties the read buffer.
parseResponse_FailureClearsBuffer(st0, data, env) ==
    LET st == [st0 EXCEPT !.parsed = Append(@, data)]
        doc == FromJson(data)
        response == doc.object
        type == JToString(JGet(response, "type"), EmptyStr)
        content == JToString(JGet(response, "content"), EmptyStr)
        canUndo == JToBool(JGet(response, "can_undo"), FALSE)
    IN  IF doc.error
        THEN SendErrorOccurred([st EXCEPT !.buf = <<>>],
                 <<"Invalid JSON response from Python service">>)
        ELSE IF ~doc.isObject THEN st
        ELSE IF type = <<"message">>
        THEN onPythonMessage(st,
                 IF canUndo THEN content \o CanUndoMarker ELSE content)
        ELSE IF type = <<"approval_request">>
        THEN onPythonApprovalRequest(st,
                 ApprovalRequest(
                     JToString(JGet(response, "approval_id"), EmptyStr),
                     JToInt(JGet(response, "current_step"), 0),
                     JToInt(JGet(response, "total_steps"), 1)))
        ELSE IF type = <<"tool_call">> THEN handleToolCall(st, response)
        ELSE IF type = <<"state_query">>
        THEN handleStateQuery(st, response, env)
        ELSE IF type = <<"error">> THEN SendErrorOccurred(st, content)
        ELSE IF type = <<"clarification_needed">>
        THEN onPythonMessage(st, content)
        ELSE st

\* Mutant: an object of an unknown type raises an error event.
parseResponse_UnknownRaisesError(st0, data, env) ==
    LET st == [st0 EXCEPT !.parsed = Append(@, data)]
        doc == FromJson(data)
        response == doc.object
        type == JToString(JGet(response, "type"), EmptyStr)
        content == JToString(JGet(response, "content"), EmptyStr)
        canUndo == JToBool(JGet(response, "can_undo"), FALSE)
    IN  IF doc.error
        THEN SendErrorOccurred(st,
                 <<"Invalid JSON response from Python service">>)
        ELSE IF ~doc.isObject THEN st
        ELSE IF type = <<"message">>
        THEN onPythonMessage(st,
                 IF canUndo THEN content \o CanUndoMarker ELSE content)
        ELSE IF type = <<"approval_request">>
        THEN onPythonApprovalRequest(st,
                 ApprovalRequest(
                     JToString(JGet(response, "approval_id"), EmptyStr),
                     JToInt(JGet(response, "current_step"), 0),
                     JToInt(JGet(response, "total_steps"), 1)))
        ELSE IF type = <<"tool_call">> THEN handleToolCall(st, response)
        ELSE IF type = <<"state_query">>
        THEN handleStateQuery(st, response, env)
        ELSE IF type = <<"error">> THEN SendErrorOccurred(st, content)
        ELSE IF type = <<"clarification_needed">>
        THEN onPythonMessage(st, content)
        ELSE SendErrorOccurred(st, <<"Unknown response type">>)

\* The transcript store that takes transcript_data is outside the model.
parseResponse(st0, data, env) ==
    LET st == [st0 EXCEPT !.parsed = Append(@, data)]
        doc == FromJson(data)
        response == doc.object
        type == JToString(JGet(response, "type"), EmptyStr)
        content == JToString(JGet(response, "content"), EmptyStr)
        canUndo == JToBool(JGet(response, "can_undo"), FALSE)
    IN  IF doc.error
        THEN SendErrorOccurred(st,
                 <<"Invalid JSON response from Python service">>)
        ELSE IF ~doc.isObject THEN st
        ELSE IF type = <<"message">>
        THEN onPythonMessage(st,
                 IF canUndo THEN content \o CanUndoMarker ELSE content)
        ELSE IF type = <<"approval_request">>
        THEN onPythonApprovalRequest(st,
                 ApprovalRequest(
                     JToString(JGet(response, "approval_id"), EmptyStr),
                     JToInt(JGet(response, "current_step"), 0),
                     JToInt(JGet(response, "total_steps"), 1)))
        ELSE IF type = <<"tool_call">> THEN handleToolCall(st, response)
        ELSE IF type = <<"state_query">>
        THEN handleStateQuery(st, response, env)
        ELSE IF type = <<"error">> THEN SendErrorOccurred(st, content)
        ELSE IF type = <<"clarification_needed">>
        THEN onPythonMessage(st, content)
        ELSE st

\* QByteArray::indexOf('\n'): the first position (from 0), -1 when absent
IndexOfNewline(buf) ==
    LET hits == { i \in 1..Len(buf) : buf[i] = NL }
    IN  IF hits = {} THEN -1
        ELSE (CHOOSE i \in hits : \A j \in hits : i <= j) - 1

\* Mutant: one line is taken from the buffer at each callback.
ExtractLines_StopsAfterFirst(st, env) ==
    LET newlinePos == IndexOfNewline(st.buf)
        line == SubSeq(st.buf, 1, newlinePos)
        rest == SubSeq(st.buf, newlinePos + 2, Len(st.buf))
        st1 == [st EXCEPT !.buf = rest]
    IN  IF newlinePos < 0 THEN st
        ELSE IF line # <<>> THEN parseResponse(st1, line, env)
        ELSE st1

\* Mutant: an empty line is handed to parseResponse like any other.
RECURSIVE ExtractLines_DispatchesEmpty(_, _)
ExtractLines_DispatchesEmpty(st, env) ==
    LET newlinePos == IndexOfNewline(st.buf)
        line == SubSeq(st.buf, 1, newlinePos)
        rest == SubSeq(st.buf, newlinePos + 2, Len(st.buf))
        st1 == [st EXCEPT !.buf = rest]
    IN  IF newlinePos < 0 THEN st
        ELSE ExtractLines_DispatchesEmpty(parseResponse(st1, line, env), env)

\* The while loop of onProcessReadyRead over st.buf
RECURSIVE ExtractLines(_, _)
ExtractLines(st, env) ==
    LET newlinePos == IndexOfNewline(st.buf)
        line == SubSeq(st.buf, 1, newlinePos)
        rest == SubSeq(st.buf, newlinePos + 2, Len(st.buf))
        st1 == [st EXCEPT !.buf = rest]
    IN  IF newlinePos < 0 THEN st
        ELSE IF line # <<>>
        THEN ExtractLines(parseResponse(st1, line, env), env)
        ELSE ExtractLines(st1, env)

\* Mutant: the new chunk replaces the buffered remainder.
onProcessReadyRead_DropsRemainder(st, newData, env) ==
    IF ~st.proc THEN st
    ELSE ExtractLines([st EXCEPT !.buf = newData], env)

\* newData is what readAllStandardOutput returns
onProcessReadyRead(st, newData, env) ==
    IF ~st.proc THEN st
    ELSE ExtractLines([st EXCEPT !.buf = @ \o newData], env)

----------------------------------------------------------------------------
\* PythonBridgeImpl: the process supervisor

ProcessErrorText(error) ==
    CASE error = "FailedToStart" -> <<"Python process failed to start">>
      [] error = "Crashed"       -> <<"Python process crashed">>
      [] error = "Timedout"      -> <<"Python process timed out">>
      [] error = "WriteError"    -> <<"Error writing to Python process">>
      [] error = "ReadError"     -> <<"Error reading from Python process">>
      [] OTHER                   -> <<"Unknown Python process error">>

\* Mutant: the process error is also reported to the agent.
onProcessError_TellsAgent(st, error) ==
    SendErrorOccurred(
        [st EXCEPT !.stdin = Append(@, [type |-> "error",
                                        message |-> ProcessErrorText(error)])],
        ProcessErrorText(error))

onProcessError(st, error) == SendErrorOccurred(st, ProcessErrorText(error))

onProcessFinished(st, exitCode, exitStatus) ==
    IF exitStatus = "CrashExit"
    THEN SendErrorOccurred(st, <<"Python process crashed">>)
    ELSE st

\* init gets as far as creating a QProcess
Spawns(st, scriptExists) == ~st.proc /\ scriptExists

\* Mutant: no test for a process that is already there.
BridgeInit_NoGuard(st, scriptExists, start) ==
    IF ~scriptExists
    THEN SendErrorOccurred(st, <<"Cannot find Python agent service script">>)
    ELSE IF start = "started"
    THEN [st EXCEPT !.proc = TRUE, !.state = "Running"]
    ELSE LET st1 == IF start = "failedToStart"
                    THEN onProcessError(st, "FailedToStart") ELSE st
             st2 == SendErrorOccurred(st1,
                        <<"Failed to start Python agent service">>)
         IN  [st2 EXCEPT !.proc = FALSE, !.state = "NotRunning"]

\* Mutant: the process is spawned whether or not the script was found.
BridgeInit_SpawnsWithoutScript(st, scriptExists, start) ==
    IF st.proc THEN st
    ELSE IF start = "started"
    THEN [st EXCEPT !.proc = TRUE, !.state = "Running"]
    ELSE LET st1 == IF start = "failedToStart"
                    THEN onProcessError(st, "FailedToStart") ELSE st
             st2 == SendErrorOccurred(st1,
                        <<"Failed to start Python agent service">>)
         IN  [st2 EXCEPT !.proc = FALSE, !.state = "NotRunning"]

\* Mutant: the handle is kept when the process has not started.
BridgeInit_KeepsHandleOnTimeout(st, scriptExists, start) ==
    IF st.proc THEN st
    ELSE IF ~scriptExists
    THEN SendErrorOccurred(st, <<"Cannot find Python agent service script">>)
    ELSE IF start = "started"
    THEN [st EXCEPT !.proc = TRUE, !.state = "Running"]
    ELSE LET st1 == IF start = "failedToStart"
                    THEN onProcessError(st, "FailedToStart") ELSE st
             st2 == SendErrorOccurred(st1,
                        <<"Failed to start Python agent service">>)
         IN  [st2 EXCEPT !.proc = TRUE, !.state = "NotRunning"]

\* PythonBridgeImpl::init.  scriptExists: the script is at one of the four
\* candidate paths.  start: what waitForStarted(5000) sees: "started",
\* "failedToStart" (QProcess reports the error on its signal first) or
\* "timedOut".
BridgeInit(st, scriptExists, start) ==
    IF st.proc THEN st
    ELSE IF ~scriptExists
    THEN SendErrorOccurred(st, <<"Cannot find Python agent service script">>)
    ELSE IF start = "started"
    THEN [st EXCEPT !.proc = TRUE, !.state = "Running"]
    ELSE LET st1 == IF start = "failedToStart"
                    THEN onProcessError(st, "FailedToStart") ELSE st
             st2 == SendErrorOccurred(st1,
                        <<"Failed to start Python agent service">>)
         IN  [st2 EXCEPT !.proc = FALSE, !.state = "NotRunning"]

\* Mutant: the signals stay connected, and the end of the process that
\* terminate() brings about while deinit waits reaches the handlers.
BridgeDeinit_StaysConnected(st) ==
    IF ~st.proc THEN st
    ELSE LET st1 == IF st.state = "Running"
                    THEN onProcessFinished(
                             [onProcessError(st, "Crashed")
                                  EXCEPT !.state = "NotRunning"],
                             15, "CrashExit")
                    ELSE st
         IN  [st1 EXCEPT !.proc = FALSE, !.state = "NotRunning",
                         !.buf = <<>>]

\* Mutant: the read buffer is left as it is.
BridgeDeinit_KeepsBuffer(st) ==
    IF ~st.proc THEN st
    ELSE [st EXCEPT !.proc = FALSE, !.state = "NotRunning"]

\* PythonBridgeImpl::deinit: the signals of the process are disconnected
\* first, so nothing it does while deinit waits reaches a handler; whether
\* the process exits on terminate() or is killed after the timeout, the
\* handle is deleted either way.
BridgeDeinit(st) ==
    IF ~st.proc THEN st
    ELSE [st EXCEPT !.proc = FALSE, !.state = "NotRunning", !.buf = <<>>]

\* What deinit asks of the process: terminate() when it is running, kill()
\* when waitForFinished(3000) then reports that it has not exited.
DeinitRequests(st, exitsInTime) ==
    IF ~st.proc \/ st.state # "Running" THEN <<>>
    ELSE IF exitsInTime THEN <<"terminate">>
    ELSE <<"terminate", "kill">>

\* The text of the Ret a failed call returns
NotRunningError     == <<"Python process not running">>
NotInitializedError == <<"PythonBridge not initialized">>
InvalidIdError      == <<"Invalid approval ID">>

\* Mutant: the request is written whatever the state of the process.
sendRequest_WritesWhenNotRunning(st, message) ==
    [st |-> [st EXCEPT !.stdin =
                Append(@, [type |-> "message", message |-> message])],
     ret |-> RetOk]

sendRequest(st, message) ==
    IF ~Running(st) THEN [st |-> st, ret |-> NotRunningError]
    ELSE [st |-> [st EXCEPT !.stdin =
                     Append(@, [type |-> "message", message |-> message])],
          ret |-> RetOk]

\* Mutant: the batch-mode flag is left at its default.
sendApproval_DropsBatchMode(st, approvalId, approved, batchMode) ==
    IF ~Running(st) THEN [st |-> st, ret |-> NotRunningError]
    ELSE [st |-> [st EXCEPT !.stdin =
                     Append(@, [type |-> "approval",
                                approval_id |-> approvalId,
                                approved |-> approved,
                                batch_mode |-> FALSE])],
          ret |-> RetOk]

sendApproval(st, approvalId, approved, batchMode) ==
    IF ~Running(st) THEN [st |-> st, ret |-> NotRunningError]
    ELSE [st |-> [st EXCEPT !.stdin =
                     Append(@, [type |-> "approval",
                                approval_id |-> approvalId,
                                approved |-> approved,
                                batch_mode |-> batchMode])],
          ret |-> RetOk]

----------------------------------------------------------------------------
\* ChatController: the calls of IChatController

\* Mutant: no prefix test, only the exact id and the id before "_step_".
Matches_NoPrefix(pending, approvalId) ==
    LET stepPos == Find(approvalId, StepMarker)
        baseId == IF stepPos # npos THEN Substr0(approvalId, stepPos)
                  ELSE approvalId
    IN  pending = approvalId \/ pending = baseId

\* The id test of approveOperation
Matches(pending, approvalId) ==
    LET direct == pending = approvalId \/ Find(approvalId, pending) = 0
        stepPos == Find(approvalId, StepMarker)
        baseId == IF stepPos # npos THEN Substr0(approvalId, stepPos)
                  ELSE approvalId
    IN  IF ~direct /\ pending # <<>> THEN pending = baseId ELSE direct

\* Mutant: the user's entry is logged only when the bridge took the request.
ctlSendMessage_LogsOnSuccess(st, message) ==
    LET userMsg == ChatMessage("User", message, FALSE)
        st1 == VMonMessageReceived(
                   [st EXCEPT !.messages = Append(@, userMsg)], userMsg)
    IN  IF message = <<>> THEN [st |-> st, ret |-> RetOk]
        ELSE IF m_pythonBridge /\ Running(st) THEN sendRequest(st1, message)
        ELSE IF m_pythonBridge THEN sendRequest(st, message)
        ELSE [st |-> st, ret |-> NotInitializedError]

ctlSendMessage(st, message) ==
    LET userMsg == ChatMessage("User", message, FALSE)
        st1 == VMonMessageReceived(
                   [st EXCEPT !.messages = Append(@, userMsg)], userMsg)
    IN  IF message = <<>> THEN [st |-> st, ret |-> RetOk]
        ELSE IF m_pythonBridge THEN sendRequest(st1, message)
        ELSE [st |-> st1, ret |-> NotInitializedError]

\* Mutant: the decision is forwarded before the id is tested.
ctlApproveOperation_ForwardsFirst(st, approvalId, approved, batchMode) ==
    LET r == sendApproval(st, approvalId, approved, batchMode)
    IN  IF ~Matches(st.pending, approvalId)
        THEN [st |-> r.st, ret |-> InvalidIdError]
        ELSE IF m_pythonBridge THEN r
        ELSE [st |-> st, ret |-> NotInitializedError]

\* Mutant: a forwarded decision always ends the approval.
ctlApproveOperation_AlwaysClears(st, approvalId, approved, batchMode) ==
    IF ~Matches(st.pending, approvalId)
    THEN [st |-> st, ret |-> InvalidIdError]
    ELSE IF m_pythonBridge
    THEN sendApproval([st EXCEPT !.pending = <<>>], approvalId, approved,
                      batchMode)
    ELSE [st |-> st, ret |-> NotInitializedError]

ctlApproveOperation(st, approvalId, approved, batchMode) ==
    IF ~Matches(st.pending, approvalId)
    THEN [st |-> st, ret |-> InvalidIdError]
    ELSE IF m_pythonBridge
    THEN sendApproval(st, approvalId, approved, batchMode)
    ELSE [st |-> st, ret |-> NotInitializedError]

\* Mutant: the pending id is not cleared before the rejection is sent.
ctlCancelPendingOperation_KeepsPending(st) ==
    IF st.pending = <<>> THEN [st |-> st, ret |-> RetOk]
    ELSE IF m_pythonBridge THEN sendApproval(st, st.pending, FALSE, FALSE)
    ELSE [st |-> st, ret |-> NotInitializedError]

\* Mutant: no early return when nothing is pending.
ctlCancelPendingOperation_NoEarlyReturn(st) ==
    IF m_pythonBridge
    THEN sendApproval([st EXCEPT !.pending = <<>>], st.pending, FALSE, FALSE)
    ELSE [st |-> [st EXCEPT !.pending = <<>>], ret |-> NotInitializedError]

\* Mutant: the pending id is cleared once the rejection has been written.
ctlCancelPendingOperation_ClearsOnSuccess(st) ==
    LET r == sendApproval(st, st.pending, FALSE, FALSE)
    IN  IF st.pending = <<>> THEN [st |-> st, ret |-> RetOk]
        ELSE IF m_pythonBridge /\ IsOk(r.ret)
        THEN [st |-> [r.st EXCEPT !.pending = <<>>], ret |-> r.ret]
        ELSE IF m_pythonBridge THEN r
        ELSE [st |-> st, ret |-> NotInitializedError]

ctlCancelPendingOperation(st) ==
    LET id == st.pending
        st1 == [st EXCEPT !.pending = <<>>]
    IN  IF st.pending = <<>> THEN [st |-> st, ret |-> RetOk]
        ELSE IF m_pythonBridge THEN sendApproval(st1, id, FALSE, FALSE)
        ELSE [st |-> st1, ret |-> NotInitializedError]

----------------------------------------------------------------------------
\* ChatViewModel: the invokable calls

vmClearApproval(st) == [st EXCEPT !.vmPending = <<>>, !.vmStepTotal = 1]

vmSendMessage(st, message) ==
    LET r == ctlSendMessage([st EXCEPT !.vmProcessing = TRUE], message)
    IN  IF IsOk(r.ret) THEN r
        ELSE [st |-> [r.st EXCEPT !.vmProcessing = FALSE], ret |-> r.ret]

vmApproveOperation(st, approved, batchMode) ==
    LET r == ctlApproveOperation(st, st.vmPending, approved, batchMode)
    IN  IF st.vmPending = <<>> THEN [st |-> st, ret |-> RetOk]
        ELSE IF IsOk(r.ret) /\ (~approved \/ batchMode \/ st.vmStepTotal <= 1)
        THEN [st |-> vmClearApproval(r.st), ret |-> r.ret]
        ELSE r

vmCancelApproval(st) ==
    LET r == ctlCancelPendingOperation(st)
    IN  [st |-> vmClearApproval(r.st), ret |-> r.ret]

----------------------------------------------------------------------------
\* Lines the agent writes

ObjectLine(members) == <<LBrace>> \o members \o <<RBrace>>
Type(t) == Member("type", JStr(<<t>>))

Hi  == <<"h", "i">>
Bad == <<"b", "a", "d">>
CallA == <<"c", "1">>
CallB == <<"c", "2">>

MessageLine(content) ==
    ObjectLine(<<Type("message"), Member("content", JStr(content))>>)
MessageLineCanUndo(content, canUndo) ==
    ObjectLine(<<Type("message"), Member("content", JStr(content)),
                 Member("can_undo", JBool(canUndo))>>)
ErrorLine(content) ==
    ObjectLine(<<Type("error"), Member("content", JStr(content))>>)
ApprovalRequestLine(id, currentStep, totalSteps) ==
    ObjectLine(<<Type("approval_request"), Member("approval_id", JStr(id)),
                 Member("current_step", JInt(currentStep)),
                 Member("total_steps", JInt(totalSteps))>>)
ToolCallLine(callId, actionCode) ==
    ObjectLine(<<Type("tool_call"), Member("call_id", JStr(callId)),
                 Member("action_code", JStr(actionCode))>>)
StateQueryLine(callId, queryType) ==
    ObjectLine(<<Type("state_query"), Member("call_id", JStr(callId)),
                 Member("query_type", JStr(<<queryType>>))>>)
TruncatedLine == <<LBrace, Type("message")>>
ArrayLine     == <<LBracket, RBracket>>
EmptyLine     == <<>>

\* Objects of no recognized kind
UnknownTypeLine == ObjectLine(<<Type("bogus"), Member("content", JStr(Hi))>>)
NoTypeLine      == ObjectLine(<<Member("content", JStr(Hi))>>)

\* Requests with a field missing or invalid
ToolCallNoCallId == ObjectLine(<<Type("tool_call"),
                                Member("action_code", JStr(Split))>>)
ToolCallNoActionCode == ObjectLine(<<Type("tool_call"),
                                    Member("call_id", JStr(CallA))>>)
StateQueryNoQueryType == ObjectLine(<<Type("state_query"),
                                     Member("call_id", JStr(CallA))>>)
StateQueryLineWith(callId, queryType, params) ==
    ObjectLine(<<Type("state_query"), Member("call_id", JStr(callId)),
                 Member("query_type", JStr(<<queryType>>)),
                 Member("parameters", JObj(params))>>)

ProtocolLines ==
    { MessageLine(Hi), UnknownTypeLine, NoTypeLine,
      ToolCallLine(CallA, Split), ToolCallLine(CallB, Nope),
      ToolCallNoCallId, ToolCallNoActionCode, StateQueryNoQueryType,
      StateQueryLine(CallA, "get_track_list"),
      StateQueryLine(CallB, "unknown_query"),
      StateQueryLineWith(CallA, "get_clips_on_track", <<>>),
      StateQueryLineWith(CallB, "get_clips_on_track",
                         <<Member("track_id", JStr(<<"x">>))>>),
      StateQueryLineWith(CallA, "get_clips_on_track",
                         <<Member("track_id", JStr(<<"1">>))>>),
      StateQueryLineWith(CallB, "action_enabled", <<>>) }

WireLines ==
    { MessageLine(Hi),
      ToolCallLine(CallA, Split),
      ToolCallLine(CallB, Nope),
      StateQueryLine(CallA, "get_track_list"),
      StateQueryLine(CallB, "unknown_query"),
      TruncatedLine, ArrayLine, EmptyLine }

ApprovalLines ==
    { ApprovalRequestLine(Abc123, 1, 3), ApprovalRequestLine(Op1, 1, 1) }

\* Message contents: with the marker as the suffix, and with it inside
Trim          == <<"T", "r", "i", "m">>
TrimMarked    == Trim \o CanUndoMarker
TrimMarkedMid == Trim \o CanUndoMarker \o <<"!">>

\* What the agent says in a conversation
HostLines ==
    { MessageLine(Trim), MessageLine(TrimMarked),
      MessageLineCanUndo(Trim, TRUE), MessageLineCanUndo(TrimMarkedMid, TRUE),
      ErrorLine(Bad), TruncatedLine, ApprovalRequestLine(Op1, 1, 1) }

ApprovalIds == {Abc123, Abc123Step2, Abc123Xyz, Xyz, Op1}

\* The surroundings of a state query: all there, or nothing there and the
\* provider throwing
Envs ==
    { [context |-> TRUE, exported |-> TRUE, throws |-> FALSE],
      [context |-> FALSE, exported |-> FALSE, throws |-> TRUE] }

\* The surroundings a read can meet: they are consulted only for a state
\* query, so only units that hold one are read under each of them
SurroundingsOf(units) ==
    IF \E i \in 1..Len(units) :
           units[i].u = "member" /\ units[i].k = "query_type"
    THEN Envs
    ELSE { [context |-> TRUE, exported |-> TRUE, throws |-> FALSE] }

----------------------------------------------------------------------------
\* Steps

\* What a step records of the state it started from
Pre ==
    [pending |-> m_pendingApprovalId, messages |-> m_messages,
     stdin |-> stdinLog, running |-> Running(Cur),
     vmPending |-> vm_pendingApprovalId,
     vmStepTotal |-> vm_approvalStepTotal]

Providers == UNCHANGED <<hasExecutor, hasStateReader>>

\* After construction: no bridge, no process, an empty log, nothing pending.
InitState ==
    /\ m_pythonBridge = FALSE
    /\ m_pythonProcess = FALSE
    /\ procState = "NotRunning"
    /\ m_stdoutBuffer = <<>>
    /\ pipe = <<>>
    /\ stdinLog = <<>>
    /\ m_messages = <<>>
    /\ m_pendingApprovalId = <<>>
    /\ vm_messages = <<>>
    /\ vm_isProcessing = FALSE
    /\ vm_pendingApprovalId = <<>>
    /\ vm_approvalStepTotal = 1
    /\ errorEvents = <<>>
    /\ executed = <<>>
    /\ parsed = <<>>
    /\ received = <<>>
    /\ nSteps = 0
    /\ last = [op |-> "construct"]

\* ChatModule registers the action executor and the state reader together:
\* the bridge finds both or, without the registration, neither.
Init ==
    /\ InitState
    /\ hasExecutor \in BOOLEAN
    /\ hasStateReader = hasExecutor

\* ChatController::init: a new bridge replaces the old one, whose destructor
\* runs deinit; then the new bridge's init.  The histories kept of the
\* bridge and its process start anew.
ControllerInit(scriptExists, start) ==
    /\ Commit(BridgeInit([BridgeDeinit(Cur) EXCEPT !.stdin = <<>>,
                                                   !.parsed = <<>>],
                         scriptExists, start))
    /\ m_pythonBridge' = TRUE
    /\ pipe' = <<>>
    /\ received' = <<>>
    /\ nSteps' = nSteps + 1
    /\ last' = [op |-> "init", scriptExists |-> scriptExists,
                start |-> start, nErrors |-> Len(errorEvents)]
    /\ Providers

\* m_pythonBridge->init() on the bridge the controller already holds.  A
\* process that is spawned comes with a pipe of its own.
BridgeInitCall(scriptExists, start) ==
    /\ m_pythonBridge
    /\ Commit(BridgeInit(Cur, scriptExists, start))
    /\ pipe' = IF Spawns(Cur, scriptExists) THEN <<>> ELSE pipe
    /\ received' = IF Spawns(Cur, scriptExists) THEN <<>> ELSE received
    /\ nSteps' = nSteps + 1
    /\ last' = [op |-> "bridgeInit", scriptExists |-> scriptExists,
                start |-> start, nErrors |-> Len(errorEvents),
                hadHandle |-> m_pythonProcess,
                spawned |-> Spawns(Cur, scriptExists), pre |-> Pre,
                buffer |-> m_stdoutBuffer]
    /\ UNCHANGED m_pythonBridge
    /\ Providers

\* ChatController::deinit
ControllerDeinit(exitsInTime) ==
    /\ m_pythonBridge
    /\ Commit(BridgeDeinit(Cur))
    /\ pipe' = <<>>
    /\ nSteps' = nSteps + 1
    /\ last' = [op |-> "deinit", wasRunning |-> Running(Cur),
                exitsInTime |-> exitsInTime,
                requests |-> DeinitRequests(Cur, exitsInTime),
                buffered |-> Len(m_stdoutBuffer),
                nErrors |-> Len(errorEvents), pre |-> Pre]
    /\ UNCHANGED <<m_pythonBridge, received>>
    /\ Providers

\* The agent writes one line and its newline to its standard output.
AgentWrite(line) ==
    /\ Running(Cur)
    /\ pipe' = pipe \o line \o <<NL>>
    /\ nSteps' = nSteps + 1
    /\ last' = [op |-> "agentWrite"]
    /\ UNCHANGED <<m_pythonBridge, m_pythonProcess, procState,
                   m_stdoutBuffer, stdinLog, m_messages,
                   m_pendingApprovalId, vm_messages, vm_isProcessing,
                   vm_pendingApprovalId, vm_approvalStepTotal, errorEvents,
                   executed, parsed, received>>
    /\ Providers

\* readyReadStandardOutput with the first k units of the pipe available
ReadyRead(k, env) ==
    /\ Running(Cur)
    /\ k \in 1..Len(pipe)
    /\ Commit(onProcessReadyRead(Cur, SubSeq(pipe, 1, k), env))
    /\ pipe' = SubSeq(pipe, k + 1, Len(pipe))
    /\ received' = received \o SubSeq(pipe, 1, k)
    /\ last' = [op |-> "readyRead", nParsed |-> Len(parsed),
                buffered |-> Len(m_stdoutBuffer),
                nErrors |-> Len(errorEvents), nMessages |-> Len(m_messages),
                nStdin |-> Len(stdinLog), pending |-> m_pendingApprovalId]
    /\ UNCHANGED <<m_pythonBridge, nSteps>>
    /\ Providers

\* The process ends.  QProcess first hands over what is left in the pipe
\* (readyRead, still in the Running state), reports a crash on its error
\* signal, leaves the Running state and emits finished.
ProcessExit(exitCode, exitStatus, env) ==
    /\ Running(Cur)
    /\ LET st1 == IF pipe # <<>> THEN onProcessReadyRead(Cur, pipe, env)
                  ELSE Cur
           st2 == IF exitStatus = "CrashExit"
                  THEN onProcessError(st1, "Crashed") ELSE st1
           st3 == [st2 EXCEPT !.state = "NotRunning"]
       IN  Commit(onProcessFinished(st3, exitCode, exitStatus))
    /\ pipe' = <<>>
    /\ received' = received \o pipe
    /\ last' = [op |-> "exit", exitCode |-> exitCode,
                exitStatus |-> exitStatus, nParsed |-> Len(parsed),
                nErrors |-> Len(errorEvents), nMessages |-> Len(m_messages),
                nStdin |-> Len(stdinLog)]
    /\ UNCHANGED <<m_pythonBridge, nSteps>>
    /\ Providers

HostCall(op, r) ==
    /\ Commit(r.st)
    /\ nSteps' = nSteps + 1
    /\ last' = op @@ [ret |-> r.ret, pre |-> Pre]
    /\ UNCHANGED <<m_pythonBridge, pipe, received>>
    /\ Providers

SendMessage(message) ==
    HostCall([op |-> "sendMessage", message |-> message],
             ctlSendMessage(Cur, message))

ApproveOperation(approvalId, approved, batchMode) ==
    HostCall([op |-> "approveOperation", approvalId |-> approvalId,
              approved |-> approved, batchMode |-> batchMode],
             ctlApproveOperation(Cur, approvalId, approved, batchMode))

CancelPendingOperation ==
    HostCall([op |-> "cancelPendingOperation"],
             ctlCancelPendingOperation(Cur))

VMSendMessage(message) ==
    HostCall([op |-> "vmSendMessage", message |-> message],
             vmSendMessage(Cur, message))

VMApproveOperation(approved, batchMode) ==
    HostCall([op |-> "vmApproveOperation", approved |-> approved,
              batchMode |-> batchMode],
             vmApproveOperation(Cur, approved, batchMode))

VMCancelApproval ==
    HostCall([op |-> "vmCancelApproval"], vmCancelApproval(Cur))

StartOutcomes == {"started", "failedToStart", "timedOut"}
\* How the process ends: exit code 0, a non-zero exit code, or a crash
\* (death by a signal, whose number QProcess hands over as the code)
ExitOutcomes ==
    { [code |-> 0, status |-> "NormalExit"],
      [code |-> 1, status |-> "NormalExit"],
      [code |-> 1, status |-> "CrashExit"] }
Nominal == [context |-> TRUE, exported |-> TRUE, throws |-> FALSE]

\* The wire: every kind of line and the life cycle of the process
Next ==
    \/ nSteps < MaxSteps /\ ControllerInit(FALSE, "started")
    \/ nSteps < MaxSteps /\ \E s \in StartOutcomes : ControllerInit(TRUE, s)
    \/ nSteps < MaxSteps /\ \E t \in BOOLEAN : ControllerDeinit(t)
    \/ nSteps < MaxSteps /\ \E line \in WireLines : AgentWrite(line)
    \/ \E k \in 1..Len(pipe) :
           \E env \in SurroundingsOf(m_stdoutBuffer \o SubSeq(pipe, 1, k)) :
               ReadyRead(k, env)
    \/ \E x \in ExitOutcomes :
           \E env \in SurroundingsOf(m_stdoutBuffer \o pipe) :
               ProcessExit(x.code, x.status, env)

Spec == Init /\ [][Next]_vars

\* The approval machine: approval requests, read whole, and the calls that
\* resolve them
InitApproval ==
    /\ InitState
    /\ hasExecutor = TRUE
    /\ hasStateReader = TRUE

Budget == nSteps < MaxApprovalSteps

NextApproval ==
    \/ Budget /\ ControllerInit(TRUE, "started")
    \/ Budget /\ \E line \in ApprovalLines : AgentWrite(line)
    \/ pipe # <<>> /\ ReadyRead(Len(pipe), Nominal)
    \/ ProcessExit(0, "NormalExit", Nominal)
    \/ /\ Budget
       /\ \E id \in ApprovalIds, a \in BOOLEAN, b \in BOOLEAN :
              ApproveOperation(id, a, b)
    \/ Budget /\ CancelPendingOperation
    \/ Budget /\ \E a \in BOOLEAN, b \in BOOLEAN : VMApproveOperation(a, b)
    \/ Budget /\ VMCancelApproval

SpecApproval == InitApproval /\ [][NextApproval]_vars

\* The host's side: the calls of the controller and of the bridge it holds,
\* with a conversation on the wire
HostBudget == nSteps < MaxHostSteps

NextHost ==
    \/ HostBudget /\ \E s \in StartOutcomes : ControllerInit(TRUE, s)
    \/ HostBudget /\ \E s \in StartOutcomes : BridgeInitCall(TRUE, s)
    \/ HostBudget /\ BridgeInitCall(FALSE, "started")
    \/ HostBudget /\ ControllerDeinit(TRUE)
    \/ HostBudget /\ \E line \in HostLines : AgentWrite(line)
    \/ \E k \in {1, Len(pipe)} : ReadyRead(k, Nominal)
    \/ ProcessExit(0, "NormalExit", Nominal)
    \/ HostBudget /\ \E m \in {EmptyStr, Hi} : SendMessage(m)
    \/ HostBudget /\ \E a \in BOOLEAN : ApproveOperation(Op1, a, FALSE)
    \/ HostBudget /\ CancelPendingOperation

SpecHost == InitApproval /\ [][NextHost]_vars

\* The router: requests and other objects on the wire, well-formed or not,
\* with both providers there
ProtocolBudget == nSteps < MaxProtocolSteps

NextProtocol ==
    \/ ProtocolBudget /\ ControllerInit(TRUE, "started")
    \/ ProtocolBudget /\ \E line \in ProtocolLines : AgentWrite(line)
    \/ pipe # <<>> /\ ReadyRead(Len(pipe), Nominal)
    \/ ProcessExit(0, "NormalExit", Nominal)

SpecProtocol == InitApproval /\ [][NextProtocol]_vars

\* What the agent says to the user of the chat panel
ViewLines ==
    { MessageLine(Hi), MessageLine(TrimMarkedMid), ErrorLine(Bad),
      ApprovalRequestLine(Op1, 1, 1), ApprovalRequestLine(Abc123, 1, 3) }

\* The chat panel: the calls of ChatViewModel, the agent's answers and the
\* end of the process
ViewBudget == nSteps < MaxViewSteps

NextView ==
    \/ ViewBudget /\ ControllerInit(TRUE, "started")
    \/ ViewBudget /\ \E line \in ViewLines : AgentWrite(line)
    \/ pipe # <<>> /\ ReadyRead(Len(pipe), Nominal)
    \/ \E x \in ExitOutcomes : ProcessExit(x.code, x.status, Nominal)
    \/ ViewBudget /\ \E m \in {EmptyStr, Hi} : VMSendMessage(m)
    \/ ViewBudget /\ \E a \in BOOLEAN, b \in BOOLEAN : VMApproveOperation(a, b)
    \/ ViewBudget /\ VMCancelApproval

SpecView == InitApproval /\ [][NextView]_vars

\* The life cycle of the bridge: processes started, stopped and started
\* again, with output read whole or cut after its first unit
LifecycleLines == { MessageLine(Hi), ApprovalRequestLine(Op1, 1, 1) }

LifecycleBudget == nSteps < MaxLifecycleSteps

NextLifecycle ==
    \/ LifecycleBudget /\ ControllerInit(TRUE, "started")
    \/ LifecycleBudget /\ BridgeInitCall(TRUE, "started")
    \/ LifecycleBudget /\ \E t \in BOOLEAN : ControllerDeinit(t)
    \/ LifecycleBudget /\ \E line \in LifecycleLines : AgentWrite(line)
    \/ \E k \in {1, Len(pipe)} : ReadyRead(k, Nominal)
    \/ ProcessExit(1, "CrashExit", Nominal)

SpecLifecycle == InitApproval /\ [][NextLifecycle]_vars

----------------------------------------------------------------------------
\* Reading the histories

\* The complete lines of a unit sequence: the runs of units that end at a
\* newline, in order, each without its newline.
RECURSIVE CompleteLines(_)
CompleteLines(units) ==
    IF \A i \in 1..Len(units) : units[i] # NL THEN <<>>
    ELSE LET n == CHOOSE i \in 1..Len(units) :
                      /\ units[i] = NL
                      /\ \A j \in 1..(i - 1) : units[j] # NL
         IN  <<SubSeq(units, 1, n - 1)>>
                 \o CompleteLines(SubSeq(units, n + 1, Len(units)))

NoEmptyLine(lines) == \A i \in 1..Len(lines) : lines[i] # <<>>

\* The type of a line that is a JSON object, <<>> for any other line
LineType(line) ==
    IF FromJson(line).isObject
    THEN JToString(JGet(FromJson(line).object, "type"), EmptyStr)
    ELSE <<>>

LineField(line, key) == JGet(FromJson(line).object, key)

IsRequestLine(line) == LineType(line) \in {<<"tool_call">>, <<"state_query">>}
IsToolResult(msg) == msg.type = "tool_result"

\* The call ids of the tool_call and state_query lines dispatched so far
RequestIds ==
    LET reqs == SelectSeq(parsed, IsRequestLine)
    IN  [i \in 1..Len(reqs) |->
            JToString(LineField(reqs[i], "call_id"), EmptyStr)]

\* The call ids of the tool_result objects written so far
ResultIds ==
    LET res == SelectSeq(stdinLog, IsToolResult)
    IN  [i \in 1..Len(res) |-> res[i].result.call_id]

----------------------------------------------------------------------------
\* C1: whatever the chunks a stream of non-empty newline-terminated lines
\* arrives in, the lines handed to parseResponse are exactly the complete
\* lines received, each once, unchanged and in the order written.
C1_FramingDeliversEveryLine ==
    NoEmptyLine(CompleteLines(received)) => parsed = CompleteLines(received)

\* One read that starts inside a line (a remainder is buffered) and
\* completes two lines.
C1_Witness ==
    /\ last.op = "readyRead"
    /\ last.buffered > 0
    /\ Len(parsed) = last.nParsed + 2
    /\ NoEmptyLine(CompleteLines(received))
    /\ Len(CompleteLines(received)) = 2

\* C2: every tool_call or state_query line dispatched has exactly one
\* tool_result with its call_id written to the process, in dispatch order.
C2_OneResultPerRequest == ResultIds = RequestIds

\* A tool call and a state query with the same call id, both answered.
C2_Witness ==
    /\ Len(RequestIds) = 2
    /\ \E i, j \in 1..Len(parsed) :
           /\ LineType(parsed[i]) = <<"tool_call">>
           /\ LineType(parsed[j]) = <<"state_query">>
    /\ ResultIds = <<CallA, CallA>>

----------------------------------------------------------------------------
\* The approval machine, as the claims word it

IsPrefix(p, s) == Len(p) <= Len(s) /\ \A i \in 1..Len(p) : s[i] = p[i]

\* s cut before its first "_step_" marker, s itself when it has none
BeforeStepMarker(s) ==
    LET n == Len(StepMarker)
        at(i) == i + n - 1 <= Len(s) /\ \A j \in 1..n : s[i + j - 1] = StepMarker[j]
    IN  IF \E i \in 1..Len(s) : at(i)
        THEN SubSeq(s, 1, (CHOOSE i \in 1..Len(s) :
                               at(i) /\ \A j \in 1..(i - 1) : ~at(j)) - 1)
        ELSE s

\* The claims' matching rule for a candidate id against the pending id
IdMatches(pendingId, candidate) ==
    \/ candidate = pendingId
    \/ IsPrefix(pendingId, candidate)
    \/ BeforeStepMarker(candidate) = pendingId

IsApproveCall == last.op \in {"approveOperation", "vmApproveOperation"}
IsCancelCall  == last.op \in {"cancelPendingOperation", "vmCancelApproval"}

\* The id an approve call carried: the caller's, or the view model's
CalledId ==
    IF last.op = "approveOperation" THEN last.approvalId
    ELSE last.pre.vmPending

\* The call reached the controller's approveOperation
ReachedController ==
    last.op = "approveOperation" \/ last.pre.vmPending # <<>>

Accepted == last.ret # InvalidIdError

IsApprovalRequestLine(line) == LineType(line) = <<"approval_request">>

\* The requests parsed before the last step, and the total_steps of the
\* latest of them (1 when there is none: the field's default)
RequestsBefore(n) == SelectSeq(SubSeq(parsed, 1, n), IsApprovalRequestLine)

TotalStepsOf(line) == JToInt(LineField(line, "total_steps"), 1)
IdOf(line) == JToString(LineField(line, "approval_id"), EmptyStr)

\* The pending request when a host call was made: the latest request
\* parsed, provided its id is the pending id
PendingRequestKnown ==
    LET reqs == RequestsBefore(Len(parsed))
    IN  /\ reqs # <<>>
        /\ last.pre.pending # <<>>
        /\ IdOf(reqs[Len(reqs)]) = last.pre.pending

PendingTotalSteps ==
    LET reqs == RequestsBefore(Len(parsed))
    IN  TotalStepsOf(reqs[Len(reqs)])

ApprovalMessage(id, approved, batchMode) ==
    [type |-> "approval", approval_id |-> id, approved |-> approved,
     batch_mode |-> batchMode]

\* C3: after an approve call with a matching id the controller's pending id
\* is empty when the caller rejected, or batch mode was set, or the pending
\* request has at most one step.
C3_ClearedOnFinalDecision ==
    ( /\ IsApproveCall
      /\ ReachedController
      /\ PendingRequestKnown
      /\ IdMatches(last.pre.pending, CalledId)
      /\ IsOk(last.ret)
      /\ (~last.approved \/ last.batchMode \/ PendingTotalSteps <= 1) )
    => m_pendingApprovalId = <<>>

\* C4: after an approve call with a matching id, approved, not in batch
\* mode, for a pending request of more than one step, the pending id of the
\* controller (and of the view model, when the call came through it) is
\* what it was before the call.
C4_RetainedOnNonFinalStep ==
    ( /\ IsApproveCall
      /\ ReachedController
      /\ PendingRequestKnown
      /\ IdMatches(last.pre.pending, CalledId)
      /\ last.approved /\ ~last.batchMode
      /\ PendingTotalSteps > 1 )
    => /\ m_pendingApprovalId = last.pre.pending
       /\ last.op = "vmApproveOperation"
              => vm_pendingApprovalId = last.pre.vmPending

C4_Witness ==
    /\ last.op = "vmApproveOperation"
    /\ PendingRequestKnown
    /\ last.approved /\ ~last.batchMode
    /\ IsOk(last.ret)
    /\ PendingTotalSteps = 3
    /\ m_pendingApprovalId = Abc123
    /\ vm_pendingApprovalId = Abc123

\* C5: with a non-empty pending id, approveOperation accepts a candidate
\* exactly when it equals the pending id, starts with it, or equals it once
\* cut before its first "_step_" marker; against "abc123" it accepts
\* "abc123", "abc123_step_2" and "abc123xyz" and rejects "xyz".
C5_AcceptsExactlyMatchingIds ==
    (last.op = "approveOperation" /\ last.pre.pending # <<>>)
    => /\ Accepted <=> IdMatches(last.pre.pending, last.approvalId)
       /\ last.pre.pending = Abc123
              => /\ last.approvalId \in {Abc123, Abc123Step2, Abc123Xyz}
                     => Accepted
                 /\ last.approvalId = Xyz => ~Accepted

C5_Witness ==
    /\ last.op = "approveOperation"
    /\ last.pre.pending = Abc123
    /\ last.approvalId = Abc123Xyz
    /\ Accepted

\* C6: approveOperation with an id that does not match the pending one
\* returns the invalid-id error and leaves the pending id, the chat log and
\* the process's input as they were.
C6_MismatchChangesNothing ==
    ( /\ last.op = "approveOperation"
      /\ ~IdMatches(last.pre.pending, last.approvalId) )
    => /\ last.ret = InvalidIdError
       /\ m_pendingApprovalId = last.pre.pending
       /\ m_messages = last.pre.messages
       /\ stdinLog = last.pre.stdin

C6_Witness ==
    /\ last.op = "approveOperation"
    /\ last.pre.pending = Abc123
    /\ last.approvalId = Xyz
    /\ last.pre.running
    /\ last.ret = InvalidIdError

\* The approval requests parsed by the last step
RequestsOfLastStep ==
    SelectSeq(SubSeq(parsed, last.nParsed + 1, Len(parsed)),
              IsApprovalRequestLine)

\* C7: one pending id at most: after a step that parsed approval requests
\* the pending id is the id of the latest of them, whatever was pending
\* before, and an approve or cancel call leaves the pending id as it was or
\* empty, never an earlier id.
C7_NewRequestReplacesPending ==
    /\ (last.op \in {"readyRead", "exit"} /\ RequestsOfLastStep # <<>>)
           => m_pendingApprovalId =
                  IdOf(RequestsOfLastStep[Len(RequestsOfLastStep)])
    /\ (IsApproveCall \/ IsCancelCall)
           => m_pendingApprovalId \in {last.pre.pending, <<>>}

\* A request for "op1" read while "abc123" was pending
C7_Witness ==
    /\ last.op = "readyRead"
    /\ last.nParsed = 1
    /\ IdOf(parsed[1]) = Abc123
    /\ RequestsOfLastStep # <<>>
    /\ m_pendingApprovalId = Op1

\* C8: approveOperation with a matching id while the process runs writes
\* exactly one approval message, with the caller's id, approved flag and
\* batch-mode flag.
C8_ForwardsDecisionUnchanged ==
    ( /\ last.op = "approveOperation"
      /\ IdMatches(last.pre.pending, last.approvalId)
      /\ last.pre.running )
    => /\ IsOk(last.ret)
       /\ stdinLog = Append(last.pre.stdin,
                            ApprovalMessage(last.approvalId, last.approved,
                                            last.batchMode))

C8_Witness ==
    /\ last.op = "approveOperation"
    /\ last.pre.pending = Abc123
    /\ last.approvalId = Abc123Step2
    /\ last.approved /\ last.batchMode
    /\ last.pre.running
    /\ Len(stdinLog) = Len(last.pre.stdin) + 1

\* C9 as claimed: cancelling with a pending id P clears the pending id and
\* writes exactly one approval message (P, rejected, not batch).
C9_CancelAlwaysWritesRejection ==
    (IsCancelCall /\ last.pre.pending # <<>>)
    => /\ m_pendingApprovalId = <<>>
       /\ stdinLog = Append(last.pre.stdin,
                            ApprovalMessage(last.pre.pending, FALSE, FALSE))

\* C9 amended: cancelling with a pending id P clears the pending id; while
\* the process runs it writes exactly one approval message (P, rejected, not
\* batch); otherwise it writes nothing and returns the not-running failure.
C9_CancelClearsAndRejectsWhileRunning ==
    (IsCancelCall /\ last.pre.pending # <<>>)
    => /\ m_pendingApprovalId = <<>>
       /\ last.pre.running
              => /\ IsOk(last.ret)
                 /\ stdinLog =
                        Append(last.pre.stdin,
                               ApprovalMessage(last.pre.pending, FALSE, FALSE))
       /\ ~last.pre.running
              => /\ last.ret = NotRunningError
                 /\ stdinLog = last.pre.stdin

C9_Witness ==
    /\ last.op = "cancelPendingOperation"
    /\ last.pre.pending = Abc123
    /\ last.pre.running
    /\ m_pendingApprovalId = <<>>
    /\ stdinLog = <<ApprovalMessage(Abc123, FALSE, FALSE)>>

\* C10: cancelling with nothing pending returns success and changes
\* neither the process's input, nor the pending id, nor the chat log.
C10_CancelWithNothingPending ==
    (last.op = "cancelPendingOperation" /\ last.pre.pending = <<>>)
    => /\ IsOk(last.ret)
       /\ stdinLog = last.pre.stdin
       /\ m_pendingApprovalId = <<>>
       /\ m_messages = last.pre.messages

C10_Witness ==
    /\ last.op = "cancelPendingOperation"
    /\ last.pre.pending = <<>>
    /\ last.pre.running
    /\ IsOk(last.ret)

----------------------------------------------------------------------------
\* Reading one step of the wire

ParseFails(line) == FromJson(line).error
IsNonEmpty(line) == line # <<>>

\* The units after the last newline
Remainder(units) ==
    LET nls == { i \in 1..Len(units) : units[i] = NL }
    IN  IF nls = {} THEN units
        ELSE SubSeq(units, (CHOOSE i \in nls : \A j \in nls : j <= i) + 1,
                    Len(units))

\* The lines parsed, the error events emitted and the log entries added by
\* the last step
NewLines  == SubSeq(parsed, last.nParsed + 1, Len(parsed))
NewErrors == SubSeq(errorEvents, last.nErrors + 1, Len(errorEvents))
NewEntries == SubSeq(m_messages, last.nMessages + 1, Len(m_messages))

InvalidJsonError == <<"Invalid JSON response from Python service">>

\* The error events a run of lines is to raise: one for a line that is not
\* JSON, the content of an error line, none for any other line
RECURSIVE ExpectedErrors(_)
ExpectedErrors(lines) ==
    IF lines = <<>> THEN <<>>
    ELSE LET line == Head(lines)
             here == IF ParseFails(line) THEN <<InvalidJsonError>>
                     ELSE IF LineType(line) = <<"error">>
                     THEN <<JToString(LineField(line, "content"), EmptyStr)>>
                     ELSE <<>>
         IN  here \o ExpectedErrors(Tail(lines))

\* The roles of the log entries a run of lines is to add
RECURSIVE ExpectedRoles(_)
ExpectedRoles(lines) ==
    IF lines = <<>> THEN <<>>
    ELSE LET line == Head(lines)
             here == IF ParseFails(line) \/ LineType(line) = <<"error">>
                     THEN <<"System">>
                     ELSE IF LineType(line) \in {<<"message">>,
                                                 <<"clarification_needed">>}
                     THEN <<"Assistant">>
                     ELSE <<>>
         IN  here \o ExpectedRoles(Tail(lines))

\* C11: a line that is not JSON is dropped with one error event and leaves
\* the framing and the handling of the lines after it as they are: the lines
\* parsed are the non-empty complete lines received, the buffer holds what
\* follows the last newline, and the lines of a read raise the error events
\* and add the log entries that each of them calls for.
C11_ParseFailureIsolated ==
    last.op = "readyRead"
    => /\ parsed = SelectSeq(CompleteLines(received), IsNonEmpty)
       /\ m_stdoutBuffer = Remainder(received)
       /\ NewErrors = ExpectedErrors(NewLines)
       /\ [i \in 1..Len(NewEntries) |-> NewEntries[i].role]
              = ExpectedRoles(NewLines)

\* One read of a line that is not JSON followed by a message line
C11_Witness ==
    /\ last.op = "readyRead"
    /\ NewLines = <<TruncatedLine, MessageLine(Hi)>>
    /\ NewErrors = <<InvalidJsonError>>
    /\ Len(NewEntries) = 2
    /\ NewEntries[2] = ChatMessage("Assistant", Hi, FALSE)

\* The requests dispatched and the results written, in order
Requests == SelectSeq(parsed, IsRequestLine)
Results  == SelectSeq(stdinLog, IsToolResult)

\* The provider a request needs is not there
LacksProvider(line) ==
    \/ LineType(line) = <<"tool_call">> /\ ~hasExecutor
    \/ LineType(line) = <<"state_query">> /\ ~hasStateReader

NoProviderError(line) ==
    IF LineType(line) = <<"tool_call">>
    THEN <<"Action executor not available">>
    ELSE <<"State reader not available">>

\* C12: a tool_call without an action executor, and a state_query without a
\* state reader, is answered by one tool_result that carries the request's
\* call_id, success=false and the error naming the missing provider, and
\* nothing else; no action is ever dispatched without an executor.
C12_NoProviderFailsWithCallId ==
    /\ ~hasExecutor => executed = <<>>
    /\ \A i \in 1..Len(Requests) :
           LacksProvider(Requests[i])
           => /\ i <= Len(Results)
              /\ Results[i].result =
                     [call_id |-> JToString(LineField(Requests[i], "call_id"),
                                            EmptyStr),
                      success |-> FALSE,
                      error |-> NoProviderError(Requests[i])]

\* A tool call for a registered action and a state query, no provider there
C12_Witness ==
    /\ ~hasExecutor /\ ~hasStateReader
    /\ Requests = <<ToolCallLine(CallA, Split),
                    StateQueryLine(CallA, "get_track_list")>>
    /\ Len(Results) = 2
    /\ ~Results[1].result.success /\ ~Results[2].result.success
    /\ executed = <<>>

----------------------------------------------------------------------------
\* C13: the chat log only grows: over every step (sendMessage, an inbound
\* message, error or approval request, approve, cancel, init, deinit, the
\* end of the process) the log before the step is a prefix of the log after.
C13_LogOnlyGrows == [][IsPrefix(m_messages, m_messages')]_vars

\* A log with the user's entry first and an error entry after it, and
\* deinit run on it
C13_Witness ==
    /\ last.op = "deinit"
    /\ Len(m_messages) >= 2
    /\ m_messages[1].role = "User"
    /\ m_messages[2].role = "System"

EndsWith(s, suffix) ==
    /\ Len(suffix) <= Len(s)
    /\ SubSeq(s, Len(s) - Len(suffix) + 1, Len(s)) = suffix

\* s without the marker at its end
WithoutMarker(s) ==
    IF EndsWith(s, CanUndoMarker)
    THEN SubSeq(s, 1, Len(s) - Len(CanUndoMarker)) ELSE s

\* C14: a message line whose content ends with the marker or whose can_undo
\* is true adds one Assistant entry with the text without the marker and
\* canUndo true; a message line with neither adds one Assistant entry with
\* the content as it is and canUndo false.
C14_MessageEntryAndCanUndo ==
    (/\ last.op = "readyRead"
     /\ Len(NewLines) = 1
     /\ LineType(NewLines[1]) = <<"message">>)
    => LET content == JToString(LineField(NewLines[1], "content"), EmptyStr)
           flagged == \/ EndsWith(content, CanUndoMarker)
                      \/ JToBool(LineField(NewLines[1], "can_undo"), FALSE)
       IN  (flagged \/ Find(content, CanUndoMarker) = npos)
           => NewEntries =
                  <<ChatMessage("Assistant", WithoutMarker(content), flagged)>>

\* C15: the end of the process by a crash or with a non-zero exit code
\* raises an error event of its own, besides those of the lines read last.
C15_UnexpectedExitRaisesError ==
    (last.op = "exit" /\ (last.exitStatus = "CrashExit" \/ last.exitCode # 0))
    => Len(NewErrors) > Len(ExpectedErrors(NewLines))

\* C16: after the process has ended and after deinit the bridge holds no
\* handle, and init called on the bridge then starts a process.
C16_NoHandleAfterExitOrDeinit ==
    /\ last.op \in {"exit", "deinit"} => ~m_pythonProcess
    /\ (/\ last.op = "bridgeInit"
        /\ ~last.pre.running
        /\ last.scriptExists
        /\ last.start = "started")
       => Running(Cur)

\* C17: init on a bridge whose process is running changes nothing: no
\* process is created, no error event is raised, handle, process, read
\* buffer, chat log and what was written to the process are as before.
C17_InitWhileRunningIsNoOp ==
    (last.op = "bridgeInit" /\ last.pre.running)
    => /\ ~last.spawned
       /\ Running(Cur)
       /\ NewErrors = <<>>
       /\ m_stdoutBuffer = last.buffer
       /\ m_messages = last.pre.messages
       /\ stdinLog = last.pre.stdin

\* init called again with part of a line in the read buffer
C17_Witness ==
    /\ last.op = "bridgeInit"
    /\ last.pre.running
    /\ last.buffer # <<>>
    /\ Running(Cur)

\* C18: deinit leaves no handle and an empty read buffer and raises no error
\* event; a running process is asked to terminate, and is killed exactly
\* when it has not exited within the timeout; a process that is not
\* running is asked nothing.
C18_DeinitDiscardsHandle ==
    last.op = "deinit"
    => /\ ~m_pythonProcess
       /\ m_stdoutBuffer = <<>>
       /\ NewErrors = <<>>
       /\ last.wasRunning => Head(last.requests) = "terminate"
       /\ (\E i \in 1..Len(last.requests) : last.requests[i] = "kill")
              <=> (last.wasRunning /\ ~last.exitsInTime)
       /\ ~last.wasRunning => last.requests = <<>>

\* deinit with part of a line buffered and a process that ignores terminate
C18_Witness ==
    /\ last.op = "deinit"
    /\ last.wasRunning
    /\ last.buffered > 0
    /\ last.requests = <<"terminate", "kill">>
    /\ ~m_pythonProcess

\* C19: init with the script at none of the candidate paths raises the one
\* error event that says so and leaves the bridge without handle or process.
C19_MissingScriptFailsInit ==
    (last.op = "init" /\ ~last.scriptExists)
    => /\ NewErrors = <<<<"Cannot find Python agent service script">>>>
       /\ ~m_pythonProcess
       /\ procState = "NotRunning"

\* The script is missing when the controller is initialised a second time
C19_Witness ==
    /\ last.op = "init"
    /\ ~last.scriptExists
    /\ Len(errorEvents) >= 2
    /\ ~m_pythonProcess

\* init got as far as starting a process, which did not start
StartFailed ==
    /\ \/ last.op = "init"
       \/ last.op = "bridgeInit" /\ ~last.hadHandle
    /\ last.scriptExists
    /\ last.start # "started"

\* C20: when the process does not start, init ends with the start-failure
\* error event raised and no handle; sendRequest and sendApproval then fail
\* and write nothing, and the next init starts a process.
C20_StartFailureLeavesUninitialized ==
    StartFailed
    => /\ NewErrors # <<>>
       /\ NewErrors[Len(NewErrors)]
              = <<"Failed to start Python agent service">>
       /\ ~m_pythonProcess
       /\ sendRequest(Cur, Hi) = [st |-> Cur, ret |-> NotRunningError]
       /\ \A a \in BOOLEAN, b \in BOOLEAN :
              sendApproval(Cur, Op1, a, b)
                  = [st |-> Cur, ret |-> NotRunningError]
       /\ Running(BridgeInit(Cur, TRUE, "started"))

\* The start timed out on a second init of the same bridge
C20_Witness ==
    /\ last.op = "bridgeInit"
    /\ ~last.hadHandle
    /\ last.scriptExists
    /\ last.start = "timedOut"
    /\ ~m_pythonProcess

----------------------------------------------------------------------------
\* C21: with no agent process running, sendMessage with a text,
\* approveOperation with an id that matches the pending one, and
\* cancelPendingOperation with an id pending return a failure and write
\* nothing to the agent.
C21_NotRunningFailsWithoutWriting ==
    (/\ last.op \in {"sendMessage", "approveOperation",
                     "cancelPendingOperation"}
     /\ ~last.pre.running
     /\ last.op = "sendMessage" => last.message # <<>>
     /\ last.op = "approveOperation"
            => /\ last.pre.pending # <<>>
               /\ IdMatches(last.pre.pending, last.approvalId)
     /\ last.op = "cancelPendingOperation" => last.pre.pending # <<>>)
    => /\ ~IsOk(last.ret)
       /\ stdinLog = last.pre.stdin

\* The process has exited with an approval pending, which is then approved
C21_Witness ==
    /\ last.op = "approveOperation"
    /\ m_pythonProcess /\ procState = "NotRunning"
    /\ last.pre.pending = Op1
    /\ last.ret = NotRunningError
    /\ stdinLog = <<>>

\* The pending id the lines of a read leave: the id of the last approval
\* request among them, the id before the read when there is none
PendingAfter(lines, before) ==
    LET reqs == SelectSeq(lines, IsApprovalRequestLine)
    IN  IF reqs = <<>> THEN before ELSE IdOf(reqs[Len(reqs)])

\* C22: every inbound message and error adds one log entry and one
\* messageReceived notification whatever is pending, and changes the
\* pending id no more than the approval requests read with it do; an
\* approval request adds no log entry, and approveOperation and
\* cancelPendingOperation leave the log as it is.
C22_LogAndApprovalIndependent ==
    /\ vm_messages = m_messages
    /\ last.op = "readyRead"
           => /\ [i \in 1..Len(NewEntries) |-> NewEntries[i].role]
                     = ExpectedRoles(NewLines)
              /\ m_pendingApprovalId = PendingAfter(NewLines, last.pending)
    /\ last.op \in {"approveOperation", "cancelPendingOperation"}
           => m_messages = last.pre.messages

\* A message read while an approval is pending
C22_Witness ==
    /\ last.op = "readyRead"
    /\ last.pending = Op1
    /\ NewLines = <<MessageLine(Trim)>>
    /\ m_pendingApprovalId = Op1
    /\ NewEntries = <<ChatMessage("Assistant", Trim, FALSE)>>

IsSystemEntry(entry) == entry.role = "System"

\* C23: the System entries of the log are, in order, the error events the
\* bridge emitted, each as one entry with "Error: " before the event's text.
C23_ErrorEventsBecomeSystemEntries ==
    SelectSeq(m_messages, IsSystemEntry)
        = [i \in 1..Len(errorEvents) |->
              ChatMessage("System", <<"Error: ">> \o errorEvents[i], FALSE)]

\* A start that failed, a line that is not JSON and an error line
C23_Witness ==
    /\ \E i \in 1..Len(errorEvents) :
           errorEvents[i] = ProcessErrorText("FailedToStart")
    /\ \E i \in 1..Len(errorEvents) : errorEvents[i] = InvalidJsonError
    /\ \E i \in 1..Len(errorEvents) : errorEvents[i] = Bad

----------------------------------------------------------------------------
\* The router, as the claims word it

CallIdOf(line) == JToString(LineField(line, "call_id"), EmptyStr)
QueryTypeOf(line) == JToString(LineField(line, "query_type"), EmptyStr)
ActionCodeOf(line) == JToString(LineField(line, "action_code"), EmptyStr)
ParamOf(line, key) ==
    JToString(JGet(JToObject(LineField(line, "parameters")), key), EmptyStr)

IsToolCall(line) == LineType(line) = <<"tool_call">>
IsStateQuery(line) == LineType(line) = <<"state_query">>

\* C24: with a state reader, a state_query of a type that is not recognized
\* is answered by one tool_result with the query's call_id, success=false
\* and an error text that contains the query type.
C24_UnknownQueryFails ==
    \A i \in 1..Len(Requests) :
        (/\ IsStateQuery(Requests[i])
         /\ hasStateReader
         /\ QueryTypeOf(Requests[i]) \notin RecognizedQueries)
        => /\ Len(Results) = Len(Requests)
           /\ Results[i].result.call_id = CallIdOf(Requests[i])
           /\ ~Results[i].result.success
           /\ Find(Results[i].result.error, QueryTypeOf(Requests[i])) # npos

\* A query of the type unknown_query, answered
C24_Witness ==
    /\ hasStateReader
    /\ Requests = <<StateQueryLine(CallB, "unknown_query")>>
    /\ Len(Results) = 1
    /\ Results[1].result.error = <<"Unknown query type: ", "unknown_query">>

RecognizedTypes ==
    { <<"message">>, <<"approval_request">>, <<"tool_call">>,
      <<"state_query">>, <<"error">>, <<"clarification_needed">>,
      <<"transcript_data">> }

\* A JSON object that is of none of the recognized kinds, and any other line
IsUnrecognized(line) ==
    FromJson(line).isObject /\ LineType(line) \notin RecognizedTypes
IsRecognized(line) == ~IsUnrecognized(line)

\* The results written by the last step
NewResults == SubSeq(stdinLog, last.nStdin + 1, Len(stdinLog))

\* C25: an object whose type is absent or not recognized is dropped: a read
\* has the effects of its other lines alone, on the error events, the log,
\* the pending id and the results written, and every complete line of the
\* stream is still parsed.
C25_UnknownKindDropped ==
    last.op = "readyRead"
    => LET kept == SelectSeq(NewLines, IsRecognized)
           reqs == SelectSeq(kept, IsRequestLine)
       IN  /\ NewErrors = ExpectedErrors(kept)
           /\ [i \in 1..Len(NewEntries) |-> NewEntries[i].role]
                  = ExpectedRoles(kept)
           /\ m_pendingApprovalId = PendingAfter(kept, last.pending)
           /\ [i \in 1..Len(NewResults) |-> NewResults[i].result.call_id]
                  = [i \in 1..Len(reqs) |-> CallIdOf(reqs[i])]
           /\ parsed = SelectSeq(CompleteLines(received), IsNonEmpty)

\* One read of an object of an unknown type and a message after it
C25_Witness ==
    /\ last.op = "readyRead"
    /\ NewLines = <<UnknownTypeLine, MessageLine(Hi)>>
    /\ NewErrors = <<>>
    /\ NewEntries = <<ChatMessage("Assistant", Hi, FALSE)>>
    /\ stdinLog = <<>>

\* Valid JSON that is not an object
IsNonObjectJson(line) == ~FromJson(line).error /\ ~FromJson(line).isObject

\* C26: a line that is valid JSON but not an object raises an error event:
\* a read raises one event for each such line besides the events its other
\* lines call for.
C26_NonObjectLineRaisesError ==
    last.op = "readyRead"
    => Len(NewErrors) = Len(ExpectedErrors(NewLines))
                            + Len(SelectSeq(NewLines, IsNonObjectJson))

\* A request that lacks a required field or carries an invalid one
IsMalformedRequest(line) ==
    \/ /\ IsToolCall(line)
       /\ CallIdOf(line) = <<>> \/ ActionCodeOf(line) = <<>>
    \/ /\ IsStateQuery(line)
       /\ \/ CallIdOf(line) = <<>>
          \/ QueryTypeOf(line) = <<>>
          \/ /\ QueryTypeOf(line) = <<"get_clips_on_track">>
             /\ ~IsNumber(ParamOf(line, "track_id"))
          \/ /\ QueryTypeOf(line) = <<"action_enabled">>
             /\ ParamOf(line, "action_code") = <<>>

IsWellFormedToolCall(line) == IsToolCall(line) /\ ~IsMalformedRequest(line)

\* C27: a tool_call or state_query with a required field missing or invalid
\* is answered by a tool_result with success=false, raises no error event,
\* and no action is dispatched for it.
C27_MalformedRequestFails ==
    /\ \A i \in 1..Len(Requests) :
           IsMalformedRequest(Requests[i])
           => /\ i <= Len(Results)
              /\ ~Results[i].result.success
    /\ last.op = "readyRead" => NewErrors = ExpectedErrors(NewLines)
    /\ Len(executed) <= Len(SelectSeq(parsed, IsWellFormedToolCall))

----------------------------------------------------------------------------
\* The approval requests parsed for an id, and the decisions forwarded for it
RequestsFor(id) ==
    { i \in 1..Len(parsed) :
        IsApprovalRequestLine(parsed[i]) /\ IdOf(parsed[i]) = id }
DecisionsFor(id) ==
    { i \in 1..Len(stdinLog) :
        stdinLog[i].type = "approval" /\ stdinLog[i].approval_id = id }

\* C29: for an approval of at most one step, no second decision (approval
\* or rejection) is forwarded for its id without a new approval request:
\* the agent is never sent more decisions for the id than it sent requests.
C29_SingleStepDecidedOnce ==
    \A i \in 1..Len(parsed) :
        (IsApprovalRequestLine(parsed[i]) /\ TotalStepsOf(parsed[i]) <= 1)
        => Cardinality(DecisionsFor(IdOf(parsed[i])))
               <= Cardinality(RequestsFor(IdOf(parsed[i])))

\* C30: with nothing pending, approveOperation returns an error whatever
\* the id and writes nothing to the agent.
C30_NothingPendingRejectsApprove ==
    (last.op = "approveOperation" /\ last.pre.pending = <<>>)
    => /\ ~IsOk(last.ret)
       /\ stdinLog = last.pre.stdin

----------------------------------------------------------------------------
\* The marker stands in s before the end of s
MarkerInside(s) ==
    /\ Find(s, CanUndoMarker) # npos
    /\ Find(s, CanUndoMarker) + Len(CanUndoMarker) < Len(s)

\* C31: the marker counts only as a suffix: a message line whose can_undo is
\* false and whose content holds the marker before its end adds one
\* Assistant entry with the whole content and canUndo false.
C31_MarkerOnlyAsSuffix ==
    (/\ last.op = "readyRead"
     /\ Len(NewLines) = 1
     /\ LineType(NewLines[1]) = <<"message">>
     /\ ~JToBool(LineField(NewLines[1], "can_undo"), FALSE)
     /\ MarkerInside(JToString(LineField(NewLines[1], "content"), EmptyStr)))
    => NewEntries =
           <<ChatMessage("Assistant",
                         JToString(LineField(NewLines[1], "content"),
                                   EmptyStr),
                         FALSE)>>

----------------------------------------------------------------------------
\* A line that fails on the wire: not JSON, or JSON that is no object
IsFramingFailure(line) == ParseFails(line) \/ IsNonObjectJson(line)

\* C32: transport and framing failures stay with the host: a read of lines
\* that are not JSON or no object writes nothing to the agent, the end of
\* the process, crash included, writes nothing but the results of the
\* requests read with it, and a failed start leaves nothing written.
C32_FailuresStayLocal ==
    /\ (/\ last.op \in {"readyRead", "exit"}
        /\ \A i \in 1..Len(NewLines) : IsFramingFailure(NewLines[i]))
           => Len(stdinLog) = last.nStdin
    /\ last.op = "exit"
           => /\ Len(stdinLog)
                     = last.nStdin + Len(SelectSeq(NewLines, IsRequestLine))
              /\ \A i \in (last.nStdin + 1)..Len(stdinLog) :
                     IsToolResult(stdinLog[i])
    /\ (last.op = "init" /\ last.start # "started") => stdinLog = <<>>

\* A crash with a line that is not JSON left in the pipe, after a result
\* was written
C32_Witness ==
    /\ last.op = "exit"
    /\ last.exitStatus = "CrashExit"
    /\ NewLines = <<TruncatedLine>>
    /\ Len(NewErrors) >= 2
    /\ last.nStdin = 1
    /\ Len(stdinLog) = 1

----------------------------------------------------------------------------
\* C33: empty lines are taken from the buffer and dispatched nowhere: the
\* lines parsed are the complete lines received without the empty ones, in
\* order; after a read the buffer holds what follows the last newline; and
\* a read that completes only empty lines raises no error event, adds no
\* log entry and writes nothing.
C33_EmptyLinesDiscarded ==
    /\ parsed = SelectSeq(CompleteLines(received), IsNonEmpty)
    /\ last.op = "readyRead"
           => /\ m_stdoutBuffer = Remainder(received)
              /\ NewLines = <<>>
                     => /\ NewErrors = <<>>
                        /\ NewEntries = <<>>
                        /\ Len(stdinLog) = last.nStdin

\* A read of a chunk that is only a newline, right after a message line:
\* two consecutive newlines
C33_Witness ==
    /\ last.op = "readyRead"
    /\ last.buffered = 0
    /\ NewLines = <<>>
    /\ CompleteLines(received) = <<MessageLine(Hi), EmptyLine>>
    /\ parsed = <<MessageLine(Hi)>>
    /\ m_stdoutBuffer = <<>>

----------------------------------------------------------------------------
\* C34: with approval requests arriving and the approval resolved through
\* ChatViewModel only, the pending id of the view model and the pending id
\* of the controller are the same, both empty or both the same id.
C34_PendingIdsAgree == vm_pendingApprovalId = m_pendingApprovalId

----------------------------------------------------------------------------
\* C35: sendMessage with a text adds one User entry with that text to the
\* log and sends one notification of it, whether the bridge then takes the
\* request (which is written to the agent) or the call returns a failure
\* (nothing is written).
C35_UserEntryKeptOnFailure ==
    (last.op = "sendMessage" /\ last.message # <<>>)
    => LET userMsg == ChatMessage("User", last.message, FALSE)
       IN  /\ m_messages = Append(last.pre.messages, userMsg)
           /\ Len(vm_messages) = Len(last.pre.messages) + 1
           /\ vm_messages[Len(vm_messages)] = userMsg
           /\ IsOk(last.ret)
                  => stdinLog = Append(last.pre.stdin,
                                       [type |-> "message",
                                        message |-> last.message])
           /\ ~IsOk(last.ret) => stdinLog = last.pre.stdin

\* A text sent while no process runs
C35_Witness ==
    /\ last.op = "sendMessage"
    /\ last.message = Hi
    /\ ~last.pre.running
    /\ last.ret = NotRunningError
    /\ m_messages[Len(m_messages)] = ChatMessage("User", Hi, FALSE)

----------------------------------------------------------------------------
\* C36: when cancelPendingOperation has returned, called on the controller
\* or through the view model, the controller's pending id is empty, whether
\* the call returned Ok or a failure because the rejection could not be
\* written.
C36_CancelAlwaysClears ==
    last.op \in {"cancelPendingOperation", "vmCancelApproval"}
    => /\ m_pendingApprovalId = <<>>
       /\ (last.pre.pending # <<>> /\ ~last.pre.running) => ~IsOk(last.ret)

\* An id is pending, the process has exited, and cancel returns the failure
C36_Witness ==
    /\ last.op = "cancelPendingOperation"
    /\ last.pre.pending = Op1
    /\ ~last.pre.running
    /\ last.ret = NotRunningError
    /\ m_pendingApprovalId = <<>>
    /\ stdinLog = last.pre.stdin

----------------------------------------------------------------------------
\* C37: when onProcessReadyRead has run, on a read or on the last read at
\* the end of the process, the buffer holds no newline and is exactly what
\* was received since the last init after the last newline received.
C37_BufferIsLastPartialLine ==
    last.op \in {"readyRead", "exit"}
    => /\ \A i \in 1..Len(m_stdoutBuffer) : m_stdoutBuffer[i] # NL
       /\ m_stdoutBuffer = Remainder(received)

\* A read that starts inside one line, completes it and ends inside the next
C37_Witness ==
    /\ last.op = "readyRead"
    /\ last.buffered > 0
    /\ Len(parsed) = last.nParsed + 1
    /\ m_stdoutBuffer # <<>>
    /\ Len(received) > Len(m_stdoutBuffer) + 1

----------------------------------------------------------------------------
\* C38: deinit cuts the old process off: it leaves the log and the pending
\* id as they were, and with no process there is no output left to read and
\* nothing buffered; a process that init starts begins with an empty buffer,
\* and after each read the buffer is what this process wrote after its last
\* newline, so nothing buffered from an earlier process is joined to it.
C38_DeinitCutsOffOldProcess ==
    /\ last.op = "deinit"
           => /\ m_messages = last.pre.messages
              /\ m_pendingApprovalId = last.pre.pending
              /\ NewErrors = <<>>
    /\ ~m_pythonProcess => pipe = <<>> /\ m_stdoutBuffer = <<>>
    /\ (last.op = "init" \/ (last.op = "bridgeInit" /\ last.spawned))
           => m_stdoutBuffer = <<>>
    /\ last.op = "readyRead" => m_stdoutBuffer = Remainder(received)

\* deinit of a running process with an approval pending, an entry in the
\* log and the start of a line buffered
C38_Witness ==
    /\ last.op = "deinit"
    /\ last.wasRunning
    /\ last.buffered > 0
    /\ last.pre.pending = Op1
    /\ last.pre.messages # <<>>
    /\ m_pendingApprovalId = Op1
    /\ m_stdoutBuffer = <<>>

----------------------------------------------------------------------------
\* C39: once the agent's reply to a sendMessage, be it an assistant message,
\* an error or the crash of the process, has been appended to the view
\* model's list, isProcessing is false.
C39_ReplyEndsProcessing ==
    (/\ last.op \in {"readyRead", "exit"}
     /\ NewEntries # <<>>
     /\ Len(vm_messages) = Len(m_messages))
    => ~vm_isProcessing

----------------------------------------------------------------------------
\* C40: one crash of the process adds exactly one System entry to the log,
\* besides the entries that the lines read last call for.
C40_CrashLoggedOnce ==
    (last.op = "exit" /\ last.exitStatus = "CrashExit")
    => Len(SelectSeq(NewEntries, IsSystemEntry))
           = Len(ExpectedErrors(NewLines)) + 1

====
